---- MODULE Spec2Model ----
(***************************************************************************)
(* Model of src/helper/session-helper.ts: getSessionFromStorageWrapper,    *)
(* the session de-duplicator built on the module-level array               *)
(* refreshingSessions and the rxjs Subject refreshedSubject.               *)
(*                                                                         *)
(* JavaScript runs the calls on one event loop: a call runs without        *)
(* interruption up to its await, and the code after an await runs as one   *)
(* uninterrupted continuation some time after the awaited promise has      *)
(* settled.  Each such uninterrupted block is one action.                  *)
(***************************************************************************)
EXTENDS Integers, Sequences, FiniteSets, TLC

\* ---------------------------------------------------------------- bounds
MaxCalls == 3
NumIds == 2
MaxReqs == 2
MaxPods == 1
MaxTime == 2

Calls == 1..MaxCalls
IdNames == <<"s1", "s2", "s3", "s4">>
SessionIds == {IdNames[i] : i \in 1..NumIds}
NoId == ""

\* ---------------------------------------------------------------- values
\* What travels on refreshedSubject (Subject<Session | Error | null>) and what
\* a call returns.  obj is the identity of the object: the call whose fetch
\* produced it (0 for null).
NullValue == [kind |-> "null", sessionId |-> NoId, message |-> NoId, obj |-> 0]
SessionValue(id, o) == [kind |-> "session", sessionId |-> id, message |-> NoId, obj |-> o]
ErrorValue(msg, o) == [kind |-> "error", sessionId |-> NoId, message |-> msg, obj |-> o]

\* The ways the promise of getSessionFromStorage settles: with a session, with
\* no session (not found), or rejected.
FetchOutcomes == {"session", "notfound", "error"}

VARIABLES
  refreshingSessions, \* the array refreshingSessions
  pc,                 \* position of each call
  sessionId,          \* the sessionId argument of each call
  role,               \* "leader" (else branch) or "follower" (if branch)
  settled,            \* how the leader's getSessionFromStorage promise settled
  got,                \* the value firstValueFrom resolved with (follower)
  result,             \* what the call returned or threw
  trace,              \* history: the operations on the array, the subject and
                      \*   the backing store, in program order
  subAt,              \* history: Len(trace) when the follower subscribed
  relAt,              \* history: index in trace of the next() that released it
  cycleOf,            \* history: the leader whose fetch was in flight at the call
  pubAt               \* history: index in trace of the leader's first next()

wvars == <<refreshingSessions, pc, sessionId, role, settled, got, result,
           trace, subAt, relAt, cycleOf, pubAt>>

NoResult == [how |-> "none", val |-> NullValue]

\* One operation of the trace.
PushOp(id) == [op |-> "push", id |-> id, val |-> NullValue]
FetchOp(id) == [op |-> "fetch", id |-> id, val |-> NullValue]
NextOp(v) == [op |-> "next", id |-> NoId, val |-> v]
SpliceOp(id) == [op |-> "splice", id |-> id, val |-> NullValue]

\* ---------------------------------------------------------------- arrays
\* Array.prototype.indexOf: 0-based index of the first occurrence, else -1.
IndexOf(arr, x) ==
  IF \E i \in 1..Len(arr) : arr[i] = x
  THEN (CHOOSE i \in 1..Len(arr) : arr[i] = x /\ \A j \in 1..(i - 1) : arr[j] # x) - 1
  ELSE -1

\* The id is not recorded when the fetch begins.
PushNothing(arr, x) == arr

\* Array.prototype.push
Push(arr, x) == Append(arr, x)

\* Array.prototype.splice(start, 1): a negative start counts from the end.
Splice1(arr, start) ==
  LET n == Len(arr)
      s == IF start < 0 THEN (IF n + start < 0 THEN 0 ELSE n + start) ELSE start
  IN IF s >= n THEN arr
     ELSE [i \in 1..(n - 1) |-> IF i <= s THEN arr[i] ELSE arr[i + 1]]

\* Only the most recent entry is looked at.
AlreadyFetchingLastOnly(arr, id) == Len(arr) > 0 /\ arr[Len(arr)] = id

\* One flag for all identifiers: any fetch in flight makes the call wait.
AlreadyFetchingAny(arr, id) == Len(arr) > 0

\* The test written as indexOf(sessionId) > 0, which misses index 0.
AlreadyFetchingOffByOne(arr, id) == IndexOf(arr, id) > 0

\* refreshingSessions.indexOf(sessionId) > -1
AlreadyFetching(arr, id) == IndexOf(arr, id) > -1

\* The entry is left in the array.
RemoveNothing(arr, id) == arr

\* The removal index is -1: splice(-1, 1) removes the last entry.
RemoveLastEntry(arr, id) == Splice1(arr, -1)

\* refreshingSessions.splice(refreshingSessions.indexOf(sessionId), 1)
RemoveSession(arr, id) == Splice1(arr, IndexOf(arr, id))

\* ---------------------------------------------------------------- subject
\* A filter that accepts any session and any Error, whatever its identifier.
FilterIgnoresId(v, id) == v.kind = "session" \/ v.kind = "error"

\* The predicate given to filter(): a non-Error value whose info.sessionId is
\* the awaited id (null has none), or an Error whose message is the awaited id.
FilterMatches(v, id) ==
  \/ (v.kind # "error" /\ v.kind = "session" /\ v.sessionId = id)
  \/ (v.kind = "error" /\ v.message = id)

\* A ReplaySubject: the subscriber is handed what was emitted before.
SubscribeReplay(tr, id) ==
  LET old == {k \in 1..Len(tr) : tr[k].op = "next" /\ FilterMatches(tr[k].val, id)}
  IN IF old = {} THEN [pc |-> "waiting", got |-> NullValue, relAt |-> 0]
     ELSE LET k == CHOOSE i \in old : \A j \in old : i <= j
          IN [pc |-> "released", got |-> tr[k].val, relAt |-> k]

\* firstValueFrom(refreshedSubject.pipe(filter(..))): a plain Subject replays
\* nothing of what was emitted before (tr), so the new subscriber waits.
Subscribe(tr, id) == [pc |-> "waiting", got |-> NullValue, relAt |-> 0]

\* A channel that hands each value to one subscriber only.
SubjectNextFirstOnly(st, v, k) ==
  LET match(c) == st.pc[c] = "waiting" /\ FilterMatches(v, sessionId[c])
      hit(c) == match(c) /\ \A d \in 1..(c - 1) : ~match(d)
  IN [st EXCEPT !.pc = [c \in Calls |-> IF hit(c) THEN "released" ELSE st.pc[c]],
                !.got = [c \in Calls |-> IF hit(c) THEN v ELSE st.got[c]],
                !.relAt = [c \in Calls |-> IF hit(c) THEN k ELSE st.relAt[c]]]

\* refreshedSubject.next(v): every subscriber whose filter accepts v has its
\* promise resolved with v and is unsubscribed.  st holds the per-call
\* functions pc, got and relAt; k is the index of this next() in the trace.
SubjectNext(st, v, k) ==
  LET hit(c) == st.pc[c] = "waiting" /\ FilterMatches(v, sessionId[c])
  IN [st EXCEPT !.pc = [c \in Calls |-> IF hit(c) THEN "released" ELSE st.pc[c]],
                !.got = [c \in Calls |-> IF hit(c) THEN v ELSE st.got[c]],
                !.relAt = [c \in Calls |-> IF hit(c) THEN k ELSE st.relAt[c]]]

\* ---------------------------------------------------------------- leader
\* The value awaited from getSessionFromStorage when it does not reject.
FetchedValue(c) ==
  IF settled[c] = "session" THEN SessionValue(sessionId[c], c) ELSE NullValue

\* The catch block publishes the caught error instead of new Error(sessionId).
SubstantiveCaughtError(c) ==
  IF settled[c] = "error" THEN ErrorValue("backend", c) ELSE FetchedValue(c)

\* The first value the leader publishes: new Error(sessionId) in the catch
\* block, the fetched session (null when there is none) otherwise.
Substantive(c) ==
  IF settled[c] = "error" THEN ErrorValue(sessionId[c], c) ELSE FetchedValue(c)

\* The leader's statements before its await, in program order.
LeaderBegins(id) == <<PushOp(id), FetchOp(id)>>

\* The identifier is never removed.
LeaderEndsWithoutSplice(c) ==
  <<NextOp(Substantive(c)), NextOp(NullValue)>>

\* The reset marker is not published.
LeaderEndsWithoutReset(c) ==
  <<NextOp(Substantive(c)), SpliceOp(sessionId[c])>>

\* The leader's statements after its await, in program order (the same three
\* in the catch block and after the try).
LeaderEnds(c) ==
  <<NextOp(Substantive(c)), NextOp(NullValue), SpliceOp(sessionId[c])>>

\* What the leader returns: null from the catch block, the session otherwise.
LeaderReturn(c) ==
  IF settled[c] = "error" THEN NullValue ELSE FetchedValue(c)

\* Executes one operation on the state st = [arr, pc, got, relAt, trace].
RunOp(st, e) ==
  LET k == Len(st.trace) + 1
      s1 == [st EXCEPT !.trace = Append(@, e)]
  IN CASE e.op = "next" -> SubjectNext(s1, e.val, k)
       [] e.op = "push" -> [s1 EXCEPT !.arr = Push(@, e.id)]
       [] e.op = "splice" -> [s1 EXCEPT !.arr = RemoveSession(@, e.id)]
       [] OTHER -> s1

RECURSIVE RunOps(_, _)
RunOps(st, ops) ==
  IF ops = <<>> THEN st ELSE RunOps(RunOp(st, Head(ops)), Tail(ops))

Current ==
  [arr |-> refreshingSessions, pc |-> pc, got |-> got, relAt |-> relAt, trace |-> trace]

\* ---------------------------------------------------------------- session middleware state
\* The value of a promise resolved by .catch(() => {}) after a rejection.
UndefinedValue == [kind |-> "undefined", sessionId |-> NoId, message |-> NoId, obj |-> 0]

\* res.status(401)
StatusUnauthorized == 401

VARIABLES
  mwPc,          \* position of each middleware invocation (request)
  mandatory,     \* its parameter mandatory
  solidSid,      \* req.session.solidSid (NoId when there is none)
  localsSession, \* res.locals.session
  resStatus,     \* the status sent with res.status(..).send(..), 0 when none
  nextCalls,     \* the calls of next, "plain" for next() and "error" for next(error)
  sessionInfo    \* info.webId / info.isLoggedIn of the session a fetch produced

mwvars == <<mwPc, mandatory, solidSid, localsSession, resStatus, nextCalls, sessionInfo>>

\* No request has entered the session middleware.
MwIdle ==
  /\ mwPc = [r \in Calls |-> "idle"]
  /\ mandatory = [r \in Calls |-> TRUE]
  /\ solidSid = [r \in Calls |-> NoId]
  /\ localsSession = [r \in Calls |-> UndefinedValue]
  /\ resStatus = [r \in Calls |-> 0]
  /\ nextCalls = [r \in Calls |-> <<>>]
  /\ sessionInfo = [c \in Calls |-> [webId |-> TRUE, isLoggedIn |-> TRUE]]

\* ---------------------------------------------------------------- pod, grant and resource middleware state
\* res.status(403), HttpError(.., 404), HttpError(.., 400), HttpError(.., 500)
StatusForbidden == 403
StatusNotFound == 404
StatusBadRequest == 400
StatusServerError == 500

\* The arguments next is called with: nothing, an HttpError with its
\* statusCode, or another Error (statusCode 0).
PlainNext == [kind |-> "plain", statusCode |-> 0]
HttpError(code) == [kind |-> "error", statusCode |-> code]
OtherError == [kind |-> "error", statusCode |-> 0]
NoError == [kind |-> "none", statusCode |-> 0]

VARIABLES
  handler,    \* the middleware the request is in ("none" before it arrives)
  hPc,        \* its position
  hMandatory, \* the parameter mandatory of getPodsMandatoryOrOptional
  hSession,   \* res.locals.session as the earlier middleware left it
  hReq,       \* req.session, req.query, req.files and req.body, and Date.now()
  hPods,      \* res.locals.pods
  hStatus,    \* the status sent with res.status(..).send(..), 0 when none
  hNext,      \* the calls of next, in order
  podOps      \* the calls made to the pod (getPodUrlAll, PodService), in order

hvars == <<handler, hPc, hMandatory, hSession, hReq, hPods, hStatus, hNext, podOps>>

NoSession == [present |-> FALSE, webId |-> FALSE, isLoggedIn |-> FALSE]
NoDate == [kind |-> "absent", t |-> 0]
NoReq ==
  [solidSid |-> FALSE, accessGrant |-> "none", expiration |-> NoDate, now |-> 0,
   url |-> "none", files |-> "none", body |-> "turtle"]
PodsUnset == [set |-> FALSE, urls |-> <<>>]

\* No request has arrived at these middlewares.
HIdle ==
  /\ handler = "none"
  /\ hPc = "idle"
  /\ hMandatory = TRUE
  /\ hSession = NoSession
  /\ hReq = NoReq
  /\ hPods = PodsUnset
  /\ hStatus = 0
  /\ hNext = <<>>
  /\ podOps = <<>>

\* ---------------------------------------------------------------- state
Init ==
  /\ refreshingSessions = <<>>
  /\ pc = [c \in Calls |-> "idle"]
  /\ sessionId = [c \in Calls |-> NoId]
  /\ role = [c \in Calls |-> "none"]
  /\ settled = [c \in Calls |-> "none"]
  /\ got = [c \in Calls |-> NullValue]
  /\ result = [c \in Calls |-> NoResult]
  /\ trace = <<>>
  /\ subAt = [c \in Calls |-> 0]
  /\ relAt = [c \in Calls |-> 0]
  /\ cycleOf = [c \in Calls |-> 0]
  /\ pubAt = [c \in Calls |-> 0]
  /\ MwIdle
  /\ HIdle

\* The leaders with the given id whose continuation has not run yet.
LeadersInFlight(id) ==
  {l \in Calls : role[l] = "leader" /\ sessionId[l] = id /\ pc[l] \in {"fetching", "settled"}}

\* The latest of them (0 when there is none).
LeaderInFlight(id) ==
  IF LeadersInFlight(id) = {} THEN 0
  ELSE CHOOSE l \in LeadersInFlight(id) : \A m \in LeadersInFlight(id) : m <= l

\* getSessionFromStorageWrapper(sessionId), up to its await.  Calls are numbered
\* in the order in which they are made.
GetSessionFromStorageWrapper(c, id) ==
  /\ pc[c] = "idle"
  /\ (IF c = 1 THEN TRUE ELSE pc[c - 1] # "idle")
  /\ sessionId' = [sessionId EXCEPT ![c] = id]
  /\ IF AlreadyFetching(refreshingSessions, id)
     THEN LET s == Subscribe(trace, id)
          IN /\ role' = [role EXCEPT ![c] = "follower"]
             /\ pc' = [pc EXCEPT ![c] = s.pc]
             /\ got' = [got EXCEPT ![c] = s.got]
             /\ relAt' = [relAt EXCEPT ![c] = s.relAt]
             /\ subAt' = [subAt EXCEPT ![c] = Len(trace)]
             /\ cycleOf' = [cycleOf EXCEPT ![c] = LeaderInFlight(id)]
             /\ UNCHANGED <<refreshingSessions, trace>>
     ELSE LET s == RunOps(Current, LeaderBegins(id))
          IN /\ role' = [role EXCEPT ![c] = "leader"]
             /\ refreshingSessions' = s.arr
             /\ trace' = s.trace
             /\ pc' = [pc EXCEPT ![c] = "fetching"]
             /\ cycleOf' = [cycleOf EXCEPT ![c] = c]
             /\ UNCHANGED <<got, relAt, subAt>>
  /\ UNCHANGED <<settled, result, pubAt>>

\* The promise of getSessionFromStorage settles (the backing store answers).
FetchSettles(c, o) ==
  /\ pc[c] = "fetching"
  /\ pc' = [pc EXCEPT ![c] = "settled"]
  /\ settled' = [settled EXCEPT ![c] = o]
  /\ UNCHANGED <<refreshingSessions, sessionId, role, got, result, trace,
                 subAt, relAt, cycleOf, pubAt>>

\* The leader's code after its await: publish the outcome, publish null,
\* remove the id, return.
LeaderContinues(c) ==
  /\ pc[c] = "settled"
  /\ LET s == RunOps(Current, LeaderEnds(c))
     IN /\ refreshingSessions' = s.arr
        /\ trace' = s.trace
        /\ pc' = [s.pc EXCEPT ![c] = "done"]
        /\ got' = s.got
        /\ relAt' = s.relAt
  /\ result' = [result EXCEPT ![c] = [how |-> "return", val |-> LeaderReturn(c)]]
  /\ pubAt' = [pubAt EXCEPT ![c] = Len(trace) + 1]
  /\ UNCHANGED <<sessionId, role, settled, subAt, cycleOf>>

\* The follower's code after its await: throw the Error, or return the session.
FollowerContinues(c) ==
  /\ pc[c] = "released"
  /\ pc' = [pc EXCEPT ![c] = "done"]
  /\ result' = [result EXCEPT ![c] =
                  IF got[c].kind = "error"
                  THEN [how |-> "throw", val |-> got[c]]
                  ELSE [how |-> "return", val |-> got[c]]]
  /\ UNCHANGED <<refreshingSessions, sessionId, role, settled, got, trace,
                 subAt, relAt, cycleOf, pubAt>>

vars == <<wvars, mwvars, hvars>>

\* The wrapper called directly, outside any middleware.
Next ==
  \/ \E c \in Calls, id \in SessionIds :
       GetSessionFromStorageWrapper(c, id) /\ UNCHANGED <<mwvars, hvars>>
  \/ \E c \in Calls, o \in FetchOutcomes : FetchSettles(c, o) /\ UNCHANGED <<mwvars, hvars>>
  \/ \E c \in Calls : LeaderContinues(c) /\ UNCHANGED <<mwvars, hvars>>
  \/ \E c \in Calls : FollowerContinues(c) /\ UNCHANGED <<mwvars, hvars>>

Spec == Init /\ [][Next]_vars

\* ---------------------------------------------------------------- session middleware
\* The promise is awaited without the .catch.
CatchNothing(res) == res

\* .catch(() => { }): a rejection of the wrapper's promise becomes undefined.
CatchIgnore(res) ==
  IF res.how = "throw" THEN [how |-> "return", val |-> UndefinedValue] ELSE res

\* res.locals.session?.info?.webId
HasWebId(v) == v.kind = "session" /\ sessionInfo[v.obj].webId

\* res.locals.session?.info?.isLoggedIn
IsLoggedIn(v) == v.kind = "session" /\ sessionInfo[v.obj].isLoggedIn

\* Only the webId is looked at.
RejectedWebIdOnly(m, v) == m /\ ~HasWebId(v)

\* The test without its mandatory operand.
RejectedAlways(m, v) == ~HasWebId(v) \/ ~IsLoggedIn(v)

\* mandatory && (!webId || !isLoggedIn)
Rejected(m, v) == m /\ (~HasWebId(v) \/ ~IsLoggedIn(v))

\* getSessionMandatoryOrOptional up to its await (getSession and
\* getSessionMandatory pass mandatory = true, getSessionOptional false).
\* Request r uses the wrapper call of the same number; a request that makes
\* no call leaves it "skipped".
GetSessionMandatoryOrOptional(r, m, sid) ==
  /\ mwPc[r] = "idle"
  /\ (IF r = 1 THEN TRUE ELSE mwPc[r - 1] # "idle")
  /\ mandatory' = [mandatory EXCEPT ![r] = m]
  /\ solidSid' = [solidSid EXCEPT ![r] = sid]
  /\ IF sid = NoId
     THEN /\ mwPc' = [mwPc EXCEPT ![r] = "done"]
          /\ IF m
             THEN /\ resStatus' = [resStatus EXCEPT ![r] = StatusUnauthorized]
                  /\ UNCHANGED nextCalls
             ELSE /\ nextCalls' = [nextCalls EXCEPT ![r] = Append(@, "plain")]
                  /\ UNCHANGED resStatus
          /\ pc' = [pc EXCEPT ![r] = "skipped"]
          /\ UNCHANGED <<refreshingSessions, sessionId, role, settled, got, result,
                         trace, subAt, relAt, cycleOf, pubAt>>
     ELSE /\ GetSessionFromStorageWrapper(r, sid)
          /\ mwPc' = [mwPc EXCEPT ![r] = "awaiting"]
          /\ UNCHANGED <<resStatus, nextCalls>>
  /\ UNCHANGED <<localsSession, sessionInfo, hvars>>

\* The backing store answers; a session it produces carries its info.
StoreAnswers(c, o, info) ==
  /\ FetchSettles(c, o)
  /\ sessionInfo' = [sessionInfo EXCEPT ![c] = info]
  /\ UNCHANGED <<mwPc, mandatory, solidSid, localsSession, resStatus, nextCalls, hvars>>

\* getSessionMandatoryOrOptional after its await.
SessionMiddlewareContinues(r) ==
  /\ mwPc[r] = "awaiting"
  /\ pc[r] = "done"
  /\ mwPc' = [mwPc EXCEPT ![r] = "done"]
  /\ LET out == CatchIgnore(result[r])
     IN IF out.how = "throw"
        THEN /\ nextCalls' = [nextCalls EXCEPT ![r] = Append(@, "error")]
             /\ UNCHANGED <<localsSession, resStatus>>
        ELSE /\ localsSession' = [localsSession EXCEPT ![r] = out.val]
             /\ IF Rejected(mandatory[r], out.val)
                THEN /\ resStatus' = [resStatus EXCEPT ![r] = StatusUnauthorized]
                     /\ UNCHANGED nextCalls
                ELSE /\ nextCalls' = [nextCalls EXCEPT ![r] = Append(@, "plain")]
                     /\ UNCHANGED resStatus
  /\ UNCHANGED <<wvars, mandatory, solidSid, sessionInfo, hvars>>

SessionInfos == [webId : BOOLEAN, isLoggedIn : BOOLEAN]
NoInfo == [webId |-> TRUE, isLoggedIn |-> TRUE]

\* The requests that pass through the session middleware.
Reqs == 1..MaxReqs

\* What req.session.solidSid may be: the requests belong to one browser
\* session, logged in (its solidSid) or not (none).
SolidSids == {IdNames[1], NoId}

MwNext ==
  \/ \E r \in Reqs, m \in BOOLEAN, sid \in SolidSids :
       GetSessionMandatoryOrOptional(r, m, sid)
  \/ \E c \in Calls, o \in FetchOutcomes, info \in SessionInfos :
       (o # "session" => info = NoInfo) /\ StoreAnswers(c, o, info)
  \/ \E c \in Calls : LeaderContinues(c) /\ UNCHANGED <<mwvars, hvars>>
  \/ \E c \in Calls : FollowerContinues(c) /\ UNCHANGED <<mwvars, hvars>>
  \/ \E r \in Reqs : SessionMiddlewareContinues(r)

MwSpec == Init /\ [][MwNext]_vars

\* ---------------------------------------------------------------- validateAccessGrant
Times == 0..MaxTime

\* req.session.accessGrantExpirationDate: absent, a string Date cannot parse,
\* or a date.
Expirations ==
  {NoDate, [kind |-> "invalid", t |-> 0]} \cup {[kind |-> "date", t |-> t] : t \in Times}

\* The comparison is made the other way round.
ExpiredReversed(e, now) == e.kind = "date" /\ e.t > now

\* accessGrantExpirationDate && new Date(accessGrantExpirationDate).getTime()
\* < Date.now(): getTime() of an unparsable date is NaN, and NaN < n is false.
Expired(e, now) == e.kind = "date" /\ e.t < now

\* validateAccessGrant: it has no await, so it is one step.
ValidateAccessGrant(grant, e, now) ==
  /\ handler = "none"
  /\ handler' = "validateAccessGrant"
  /\ hReq' = [hReq EXCEPT !.accessGrant = grant, !.expiration = e, !.now = now]
  /\ hPc' = "done"
  /\ IF grant = "none"
     THEN hStatus' = StatusForbidden /\ UNCHANGED hNext
     ELSE IF Expired(e, now)
          THEN hStatus' = StatusForbidden /\ UNCHANGED hNext
          ELSE hNext' = Append(hNext, PlainNext) /\ UNCHANGED hStatus
  /\ UNCHANGED <<hMandatory, hSession, hPods, podOps, wvars, mwvars>>

\* ---------------------------------------------------------------- pod middleware
\* res.locals.session as the request may carry it.
LocalSessions ==
  {NoSession} \cup {[present |-> TRUE, webId |-> w, isLoggedIn |-> l] : w, l \in BOOLEAN}

\* Only the presence of a session is tested.
UnauthenticatedNoSessionOnly(sess) == ~sess.present

\* !res.locals.session?.info?.webId || !res.locals.session.info.isLoggedIn
Unauthenticated(sess) == ~sess.present \/ ~sess.webId \/ ~sess.isLoggedIn

PodNames == <<"pod1", "pod2", "pod3">>
PodLists == {SubSeq(PodNames, 1, n) : n \in 0..MaxPods}

\* One call to the pod: what was called, whether its promise is pending, ok
\* or failed, and the value it resolved with.
PodOp(name) == [op |-> name, state |-> "pending", value |-> <<>>]

\* The test without its mandatory operand.
NoPodsIsErrorAlways(userPods, m) == Len(userPods) = 0

\* userPods.length === 0 && mandatory
NoPodsIsError(userPods, m) == Len(userPods) = 0 /\ m

\* getPodsMandatoryOrOptional up to its await (getPods and getPodsMandatory
\* pass mandatory = true, getPodsOptional false).
GetPodsMandatoryOrOptional(m, sess) ==
  /\ handler = "none"
  /\ handler' = "getPods"
  /\ hMandatory' = m
  /\ hSession' = sess
  /\ IF Unauthenticated(sess)
     THEN /\ hNext' = Append(hNext, IF m THEN HttpError(StatusUnauthorized) ELSE PlainNext)
          /\ hPc' = "done"
          /\ UNCHANGED podOps
     ELSE /\ podOps' = Append(podOps, PodOp("getPodUrlAll"))
          /\ hPc' = "awaiting"
          /\ UNCHANGED hNext
  /\ UNCHANGED <<hReq, hPods, hStatus, wvars, mwvars>>

\* The pending call to the pod settles: it fails, or it resolves (getPodUrlAll
\* with a list of pod URLs, the others with nothing the middleware looks at).
PodAnswers(ok, value) ==
  /\ hPc = "awaiting"
  /\ podOps # <<>> /\ podOps[Len(podOps)].state = "pending"
  /\ value # <<>> => (ok /\ podOps[Len(podOps)].op = "getPodUrlAll")
  /\ podOps' = [podOps EXCEPT ![Len(podOps)] =
                  [@ EXCEPT !.state = IF ok THEN "ok" ELSE "failed", !.value = value]]
  /\ hPc' = "settled"
  /\ UNCHANGED <<handler, hMandatory, hSession, hReq, hPods, hStatus, hNext, wvars, mwvars>>

\* getPodsMandatoryOrOptional after its await.
GetPodsContinues ==
  /\ handler = "getPods" /\ hPc = "settled"
  /\ hPc' = "done"
  /\ LET answer == podOps[Len(podOps)]
     IN IF answer.state = "failed"
        THEN hNext' = Append(hNext, OtherError) /\ UNCHANGED hPods
        ELSE IF NoPodsIsError(answer.value, hMandatory)
             THEN hNext' = Append(hNext, HttpError(StatusNotFound)) /\ UNCHANGED hPods
             ELSE /\ hPods' = [set |-> TRUE, urls |-> answer.value]
                  /\ hNext' = Append(hNext, PlainNext)
  /\ UNCHANGED <<handler, hMandatory, hSession, hReq, hStatus, podOps, wvars, mwvars>>

\* ---------------------------------------------------------------- resource middleware
\* req.session.accessGrant: absent, a JSON text, or a text JSON.parse rejects.
AccessGrants == {"none", "json", "garbage"}
\* req.query[key]: absent, a URL, or a text new URL rejects.
Urls == {"none", "valid", "invalid"}
\* req.files: absent, one file, or several.
Files == {"none", "one", "many"}
\* req.body: Turtle, or a text turtleAsSolidDataset rejects.
Bodies == {"turtle", "garbage"}

\* validateSession: the error it throws, NoError when it returns.
ValidateSession(sess, sid, grant) ==
  IF Unauthenticated(sess) \/ ~sid THEN HttpError(StatusUnauthorized)
  ELSE IF grant = "none" THEN HttpError(StatusServerError)
  ELSE NoError

\* What writeResource throws before its first call to the pod: validateSession,
\* the missing url, JSON.parse, new URL.
WriteResourceThrows(sess, sid, grant, url) ==
  IF ValidateSession(sess, sid, grant) # NoError THEN ValidateSession(sess, sid, grant)
  ELSE IF url = "none" THEN HttpError(StatusBadRequest)
  ELSE IF grant = "garbage" THEN OtherError
  ELSE IF url = "invalid" THEN OtherError
  ELSE NoError

\* What writeFile throws before its call to the pod.
WriteFileThrows(sess, sid, grant, url, files) ==
  IF ValidateSession(sess, sid, grant) # NoError THEN ValidateSession(sess, sid, grant)
  ELSE IF url = "none" THEN HttpError(StatusBadRequest)
  ELSE IF files = "none" THEN HttpError(StatusBadRequest)
  ELSE IF files # "one" THEN HttpError(StatusBadRequest)
  ELSE IF grant = "garbage" THEN OtherError
  ELSE IF url = "invalid" THEN OtherError
  ELSE NoError

\* A rejection goes unnoticed.
RejectsNever(answer) == FALSE

\* await on a settled promise throws when the promise was rejected.
Rejects(answer) == answer.state = "failed"

\* writeResource up to its first await.
WriteResource(sess, sid, grant, url, body) ==
  /\ handler = "none"
  /\ handler' = "writeResource"
  /\ hSession' = sess
  /\ hReq' = [hReq EXCEPT !.solidSid = sid, !.accessGrant = grant, !.url = url,
                          !.body = body]
  /\ IF WriteResourceThrows(sess, sid, grant, url) # NoError
     THEN /\ hNext' = Append(hNext, WriteResourceThrows(sess, sid, grant, url))
          /\ hPc' = "done"
          /\ UNCHANGED podOps
     ELSE /\ podOps' = Append(podOps, PodOp("deleteSolidDataset"))
          /\ hPc' = "awaiting"
          /\ UNCHANGED hNext
  /\ UNCHANGED <<hMandatory, hPods, hStatus, wvars, mwvars>>

\* writeResource after the await of deleteSolidDataset, and after the await of
\* writeSolidDataset.
WriteResourceContinues ==
  /\ handler = "writeResource" /\ hPc = "settled"
  /\ LET answer == podOps[Len(podOps)]
     IN IF Rejects(answer)
        THEN /\ hNext' = Append(hNext, OtherError)
             /\ hPc' = "done"
             /\ UNCHANGED podOps
        ELSE IF answer.op = "deleteSolidDataset"
             THEN IF hReq.body = "garbage"
                  THEN /\ hNext' = Append(hNext, OtherError)
                       /\ hPc' = "done"
                       /\ UNCHANGED podOps
                  ELSE /\ podOps' = Append(podOps, PodOp("writeSolidDataset"))
                       /\ hPc' = "awaiting"
                       /\ UNCHANGED hNext
             ELSE /\ hNext' = Append(hNext, PlainNext)
                  /\ hPc' = "done"
                  /\ UNCHANGED podOps
  /\ UNCHANGED <<handler, hMandatory, hSession, hReq, hPods, hStatus, wvars, mwvars>>

\* writeFile: the promise of podService.writeFile is not awaited, so the
\* middleware is one step and the write settles after it.
WriteFile(sess, sid, grant, url, files) ==
  /\ handler = "none"
  /\ handler' = "writeFile"
  /\ hSession' = sess
  /\ hReq' = [hReq EXCEPT !.solidSid = sid, !.accessGrant = grant, !.url = url,
                          !.files = files]
  /\ hPc' = "done"
  /\ IF WriteFileThrows(sess, sid, grant, url, files) # NoError
     THEN /\ hNext' = Append(hNext, WriteFileThrows(sess, sid, grant, url, files))
          /\ UNCHANGED podOps
     ELSE /\ podOps' = Append(podOps, PodOp("writeFile"))
          /\ hNext' = Append(hNext, PlainNext)
  /\ UNCHANGED <<hMandatory, hPods, hStatus, wvars, mwvars>>

\* The promise of podService.writeFile settles; nothing is waiting for it.
WriteFileSettles(ok) ==
  /\ handler = "writeFile"
  /\ podOps # <<>> /\ podOps[Len(podOps)].state = "pending"
  /\ podOps' = [podOps EXCEPT ![Len(podOps)] =
                  [@ EXCEPT !.state = IF ok THEN "ok" ELSE "failed"]]
  /\ UNCHANGED <<handler, hPc, hMandatory, hSession, hReq, hPods, hStatus, hNext,
                 wvars, mwvars>>

HNext ==
  \/ \E grant \in {"none", "json"}, e \in Expirations, now \in Times :
       ValidateAccessGrant(grant, e, now)
  \/ \E m \in BOOLEAN, sess \in LocalSessions : GetPodsMandatoryOrOptional(m, sess)
  \/ \E ok \in BOOLEAN, value \in PodLists : PodAnswers(ok, value)
  \/ GetPodsContinues
  \/ \E sess \in LocalSessions, sid \in BOOLEAN, grant \in AccessGrants, url \in Urls,
        body \in Bodies : WriteResource(sess, sid, grant, url, body)
  \/ WriteResourceContinues
  \/ \E sess \in LocalSessions, sid \in BOOLEAN, grant \in AccessGrants, url \in Urls,
        files \in Files : WriteFile(sess, sid, grant, url, files)
  \/ \E ok \in BOOLEAN : WriteFileSettles(ok)

HSpec == Init /\ [][HNext]_vars

\* ---------------------------------------------------------------- properties
Started(c) == pc[c] # "idle"
IsLeader(c) == role[c] = "leader"
IsFollower(c) == role[c] = "follower"

\* The leader's fetch has been issued and its promise has not settled.
FetchPending(c) == IsLeader(c) /\ pc[c] = "fetching"

\* Number of getSessionFromStorage invocations for id among the first n
\* operations of the trace.
FetchesUpTo(id, n) ==
  Cardinality({k \in 1..n : trace[k].op = "fetch" /\ trace[k].id = id})
FetchCount(id) == FetchesUpTo(id, Len(trace))

\* Index in the trace of the fetch issued by leader c.
FetchAt(c) ==
  CHOOSE k \in 1..Len(trace) :
    /\ trace[k].op = "fetch" /\ trace[k].id = sessionId[c]
    /\ FetchesUpTo(sessionId[c], k)
         = Cardinality({l \in 1..c : IsLeader(l) /\ sessionId[l] = sessionId[c]})

\* C1: in every reachable state and for every session identifier, at most one
\* backing-store fetch issued by the wrapper is pending for that identifier.
C1_AtMostOnePendingFetch ==
  \A id \in SessionIds :
    Cardinality({c \in Calls : FetchPending(c) /\ sessionId[c] = id}) <= 1

\* A fetch is pending for an id that was fetched before, with a later call
\* for the same id interleaved.
C1_Witness ==
  \E l \in Calls, c \in Calls :
    /\ FetchPending(l) /\ FetchCount(sessionId[l]) >= 2
    /\ c > l /\ Started(c) /\ sessionId[c] = sessionId[l]

\* C2: while the fetch of the first call for an identifier has not settled,
\* every later call for that identifier is a follower that issued no fetch:
\* the backing store has been invoked exactly once for these calls.
C2_SingleFetchForConcurrentCalls ==
  \A l \in Calls :
    FetchPending(l) =>
      LET id == sessionId[l]
          later == {c \in Calls : c > l /\ Started(c) /\ sessionId[c] = id}
      IN /\ \A c \in later : IsFollower(c) /\ pc[c] = "waiting" /\ cycleOf[c] = l
         /\ FetchCount(id) = FetchesUpTo(id, FetchAt(l))
         /\ \A k \in (FetchAt(l) + 1)..Len(trace) : trace[k].id # id

\* Three calls for one identifier, all made before the first fetch settles,
\* and one fetch.
C2_Witness ==
  \E l \in Calls :
    /\ FetchPending(l) /\ FetchCount(sessionId[l]) = 1
    /\ Cardinality({c \in Calls : Started(c) /\ sessionId[c] = sessionId[l]}) >= 3

\* C3: once the continuation of the leader whose fetch a follower waited on
\* has run (whether the fetch gave a session, no session or a failure), that
\* follower is no longer waiting.
C3_NoFollowerBlockedAfterSettle ==
  \A c \in Calls :
    (IsFollower(c) /\ pc[c] = "waiting") => pc[cycleOf[c]] # "done"

\* Follower c was subscribed and not yet released just before operation k.
WaitingAt(c, k) ==
  IsFollower(c) /\ subAt[c] < k /\ (relAt[c] = 0 \/ relAt[c] >= k)

LeaderDone(l) == IsLeader(l) /\ pc[l] = "done"

\* C4: when the fetch of a leader succeeded with a session, the leader and
\* every follower that was waiting on that identifier return that one session
\* object, whose identifier is the requested one; when it failed, every such
\* follower receives the one failure tagged with the identifier.
C4_SameOutcome ==
  \A l \in Calls :
    (LeaderDone(l) /\ settled[l] \in {"session", "error"}) =>
      LET id == sessionId[l]
          waiters == {c \in Calls : WaitingAt(c, pubAt[l]) /\ sessionId[c] = id}
      IN /\ settled[l] = "session" =>
              /\ result[l] = [how |-> "return", val |-> SessionValue(id, l)]
              /\ \A c \in waiters :
                   /\ pc[c] \in {"released", "done"}
                   /\ got[c] = result[l].val
                   /\ got[c].sessionId = sessionId[c]
                   /\ pc[c] = "done" => result[c] = result[l]
         /\ settled[l] = "error" =>
              \A c \in waiters :
                   /\ pc[c] \in {"released", "done"}
                   /\ got[c] = ErrorValue(id, l)
                   /\ pc[c] = "done" => result[c] = [how |-> "throw", val |-> ErrorValue(id, l)]

\* A leader and two followers have all returned the same session.
C4_Witness ==
  \E l \in Calls :
    /\ LeaderDone(l) /\ settled[l] = "session"
    /\ Cardinality({c \in Calls : IsFollower(c) /\ pc[c] = "done" /\ cycleOf[c] = l
                                   /\ result[c] = result[l]}) >= 2

\* C5: when the fetch fails the leader returns null without raising, and
\* every follower waiting on the identifier raises a failure whose message is
\* that identifier.
C5_AsymmetricFailure ==
  \A l \in Calls :
    (LeaderDone(l) /\ settled[l] = "error") =>
      /\ result[l] = [how |-> "return", val |-> NullValue]
      /\ \A c \in Calls :
           (WaitingAt(c, pubAt[l]) /\ sessionId[c] = sessionId[l]) =>
              /\ pc[c] \in {"released", "done"}
              /\ got[c].kind = "error" /\ got[c].message = sessionId[c]
              /\ pc[c] = "done" =>
                   (result[c].how = "throw" /\ result[c].val.kind = "error"
                      /\ result[c].val.message = sessionId[c])

\* A failed fetch whose leader returned null and whose follower has thrown.
C5_Witness ==
  \E l \in Calls, c \in Calls :
    /\ LeaderDone(l) /\ settled[l] = "error" /\ result[l].val = NullValue
    /\ IsFollower(c) /\ cycleOf[c] = l /\ pc[c] = "done" /\ result[c].how = "throw"

InArray(arr, id) == \E i \in 1..Len(arr) : arr[i] = id

\* Call c is made in this step.
Calling(c) == pc[c] = "idle" /\ pc'[c] # "idle"

\* The continuation of leader c runs in this step.
Ending(c) == pc[c] = "settled" /\ pc'[c] # "settled"

\* Call c, made in this step with identifier id, took the leader path and
\* issued a fetch.
BecomesLeader(c, id) ==
  /\ role'[c] = "leader" /\ pc'[c] = "fetching"
  /\ trace' = trace \o <<PushOp(id), FetchOp(id)>>

\* C6: when a fetch cycle completes (with a session, no session or a
\* failure) its identifier is absent from refreshingSessions, and the next call
\* with that identifier takes the leader path and issues a fresh fetch.
C6_SetCleanup ==
  [][\A c \in Calls :
       /\ Ending(c) => ~InArray(refreshingSessions', sessionId[c])
       /\ \A id \in SessionIds :
            (/\ Calling(c) /\ sessionId'[c] = id
             /\ LeadersInFlight(id) = {}
             /\ \E l \in Calls : LeaderDone(l) /\ sessionId[l] = id)
            => BecomesLeader(c, id)]_vars

\* A cycle that found no session was followed by a second fetch for the same
\* identifier.
C6_Witness ==
  \E l \in Calls, m \in Calls :
    /\ l < m /\ LeaderDone(l) /\ settled[l] = "notfound"
    /\ IsLeader(m) /\ sessionId[m] = sessionId[l] /\ FetchCount(sessionId[l]) = 2

\* C7: while a fetch for one identifier is pending, a call for another
\* identifier that has no fetch in flight takes the leader path and issues its
\* own fetch, and its continuation returns on its own fetch's outcome, leaving
\* the calls for other identifiers where they are.
C7_DistinctIdsIndependent ==
  [][\A c \in Calls :
       /\ \A id \in SessionIds :
            (/\ Calling(c) /\ sessionId'[c] = id
             /\ LeadersInFlight(id) = {}
             /\ \E l \in Calls : FetchPending(l) /\ sessionId[l] # id)
            => (BecomesLeader(c, id)
                  /\ \A l \in Calls : l # c => pc'[l] = pc[l])
       /\ Ending(c) =>
            /\ pc'[c] = "done" /\ result'[c].how = "return"
            /\ \A l \in Calls :
                 (l # c /\ sessionId[l] # sessionId[c]) =>
                    (pc'[l] = pc[l] /\ InArray(refreshingSessions', sessionId[l])
                                       = InArray(refreshingSessions, sessionId[l]))]_vars

\* A call has fetched and returned while an earlier fetch for another
\* identifier is still pending.
C7_Witness ==
  \E a \in Calls, b \in Calls :
    /\ a < b /\ FetchPending(a) /\ sessionId[a] # sessionId[b]
    /\ LeaderDone(b) /\ settled[b] = "session"
    /\ result[b].val = SessionValue(sessionId[b], b)

\* C8: a follower is released only by a notification published after it
\* subscribed: never by a session or failure of an earlier cycle, never by a
\* reset marker.
C8_NoResidualRelease ==
  \A c \in Calls :
    (IsFollower(c) /\ pc[c] \in {"released", "done"}) =>
      /\ relAt[c] > subAt[c] /\ relAt[c] <= Len(trace)
      /\ trace[relAt[c]] = NextOp(got[c])
      /\ got[c] # NullValue
      /\ IsLeader(got[c].obj) /\ pubAt[got[c].obj] = relAt[c]

\* A follower was released although a matching value of an earlier cycle had
\* been published before it subscribed.
C8_Witness ==
  \E c \in Calls :
    /\ IsFollower(c) /\ pc[c] \in {"released", "done"}
    /\ \E k \in 1..subAt[c] :
         trace[k].op = "next" /\ FilterMatches(trace[k].val, sessionId[c])

\* The value a cycle has to publish first.
ExpectedFirst(c) ==
  CASE settled[c] = "session" -> SessionValue(sessionId[c], c)
    [] settled[c] = "error" -> ErrorValue(sessionId[c], c)
    [] OTHER -> NullValue

\* C9: a fetch cycle publishes exactly two notifications, the substantive one
\* (the session, null when there is none, or the failure tagged with the
\* identifier) and then the reset marker, with nothing between them, and only
\* then removes the identifier from refreshingSessions; nothing else publishes.
C9_TwoNotificationsInOrder ==
  [][/\ \A c \in Calls :
          Ending(c) =>
            /\ trace' = trace \o <<NextOp(ExpectedFirst(c)), NextOp(NullValue),
                                   SpliceOp(sessionId[c])>>
            /\ InArray(refreshingSessions, sessionId[c])
            /\ ~InArray(refreshingSessions', sessionId[c])
     /\ (\A c \in Calls : ~Ending(c)) =>
          \A k \in (Len(trace) + 1)..Len(trace') : trace'[k].op \notin {"next", "splice"}]_vars

\* A failed and a successful cycle have both published.
C9_Witness ==
  \E l \in Calls, m \in Calls :
    /\ LeaderDone(l) /\ settled[l] = "error" /\ LeaderDone(m) /\ settled[m] = "session"
    /\ trace[pubAt[l]] = NextOp(ErrorValue(sessionId[l], l))
    /\ trace[pubAt[m] + 1] = NextOp(NullValue)

\* The next() operations a follower has seen without being released.
PassedBy(c) ==
  {k \in (subAt[c] + 1)..Len(trace) :
     trace[k].op = "next" /\ (pc[c] = "waiting" \/ k < relAt[c])}

\* C10: a follower waiting on an identifier is released only by a session
\* whose identifier is that one or by a failure tagged with it; what it lets
\* pass is a reset marker or belongs to another identifier.
C10_ReleasedOnlyByMatching ==
  \A c \in Calls :
    IsFollower(c) =>
      /\ pc[c] \in {"released", "done"} =>
           \/ (got[c].kind = "session" /\ got[c].sessionId = sessionId[c])
           \/ (got[c].kind = "error" /\ got[c].message = sessionId[c])
      /\ \A k \in PassedBy(c) :
           LET v == trace[k].val
           IN \/ v = NullValue
              \/ (v.kind = "session" /\ v.sessionId # sessionId[c])
              \/ (v.kind = "error" /\ v.message # sessionId[c])

\* A follower is still waiting after a session of another identifier and a
\* reset marker have been published.
C10_Witness ==
  \E c \in Calls :
    /\ IsFollower(c) /\ pc[c] = "waiting"
    /\ \E k \in PassedBy(c) : trace[k].val.kind = "session"
    /\ \E k \in PassedBy(c) : trace[k].val = NullValue

\* C11: every session identifier occurs at most once in refreshingSessions,
\* however many followers wait on it and however the calls interleave.
C11_NoDuplicateEntries ==
  \A i \in 1..Len(refreshingSessions), j \in 1..Len(refreshingSessions) :
    i # j => refreshingSessions[i] # refreshingSessions[j]

\* Two fetches are in flight, one of them with a follower waiting on it.
C11_Witness ==
  /\ Len(refreshingSessions) = 2
  /\ \E c \in Calls : IsFollower(c) /\ pc[c] = "waiting"
                        /\ InArray(refreshingSessions, sessionId[c])

\* C20: no lost wake-up.  A follower found its identifier in
\* refreshingSessions only while a leader for it had not published yet: it
\* subscribed before that leader's substantive next(), and the identifier was
\* spliced out only after that next().
C20_NoLostWakeup ==
  \A c \in Calls :
    IsFollower(c) =>
      LET l == cycleOf[c]
      IN /\ l \in Calls /\ IsLeader(l) /\ sessionId[l] = sessionId[c]
         /\ pc[l] = "done" =>
              /\ subAt[c] < pubAt[l]
              /\ trace[pubAt[l]].op = "next"
              /\ \A k \in (subAt[c] + 1)..pubAt[l] : trace[k] # SpliceOp(sessionId[c])
              /\ pubAt[l] + 2 <= Len(trace)
              /\ trace[pubAt[l] + 2] = SpliceOp(sessionId[c])

\* A follower that subscribed while the fetch was pending has been released by
\* the leader's publication.
C20_Witness ==
  \E c \in Calls :
    /\ IsFollower(c) /\ pc[c] = "done" /\ pc[cycleOf[c]] = "done"
    /\ relAt[c] = pubAt[cycleOf[c]] /\ subAt[c] < relAt[c]

\* ---------------------------------------------------------------- session middleware properties
MwDone(r) == mwPc[r] = "done"

\* What the client of request r got.
Sent401(r) == resStatus[r] = StatusUnauthorized /\ nextCalls[r] = <<>>
NextPlain(r) == resStatus[r] = 0 /\ nextCalls[r] = <<"plain">>
NextError(r) == resStatus[r] = 0 /\ nextCalls[r] = <<"error">>

\* The wrapper call of request r ended with null / with a thrown Error.
WrapperNull(r) ==
  solidSid[r] # NoId /\ result[r] = [how |-> "return", val |-> NullValue]
WrapperThrew(r) == solidSid[r] # NoId /\ result[r].how = "throw"

\* C12 as claimed: a null result gives a 401 and a failure propagated by the
\* wrapper gives the error response of next(error).
C12_FailureDistinguishable ==
  \A r \in Reqs :
    (MwDone(r) /\ mandatory[r]) =>
      /\ WrapperNull(r) => Sent401(r)
      /\ WrapperThrew(r) => NextError(r)

\* C12 as amended: the failure thrown to a follower is swallowed by the
\* .catch, so a null result and a propagated failure get the same answer:
\* 401 from the mandatory middleware, next() from the optional one, and never
\* next(error).
C12_FailureAndNullAlike ==
  \A r \in Reqs :
    (MwDone(r) /\ (WrapperNull(r) \/ WrapperThrew(r))) =>
      IF mandatory[r] THEN Sent401(r) ELSE NextPlain(r)

\* The leader and the follower of one failed fetch, both mandatory, both
\* answered 401.
C12_Witness ==
  \E l \in Reqs, f \in Reqs :
    /\ MwDone(l) /\ MwDone(f) /\ mandatory[l] /\ mandatory[f]
    /\ settled[l] = "error" /\ WrapperNull(l) /\ WrapperThrew(f)
    /\ Sent401(l) /\ Sent401(f)

\* The session handed to request r is that of an authenticated user.
ValidSession(r) ==
  /\ solidSid[r] # NoId
  /\ result[r].how = "return" /\ result[r].val.kind = "session"
  /\ sessionInfo[result[r].val.obj].webId
  /\ sessionInfo[result[r].val.obj].isLoggedIn

\* C13: the mandatory middleware calls next() only for a request that carries
\* a solidSid and whose fetched session has a webId and is logged in; every
\* other request it finishes gets a 401 and no call of next.
C13_MandatoryNextOnlyIfValid ==
  \A r \in Reqs :
    mandatory[r] =>
      /\ nextCalls[r] # <<>> => (MwDone(r) /\ ValidSession(r) /\ NextPlain(r))
      /\ (MwDone(r) /\ ~ValidSession(r)) => Sent401(r)
      /\ ~MwDone(r) => (resStatus[r] = 0 /\ nextCalls[r] = <<>>)

\* A session with a webId that is not logged in was answered 401, and a valid
\* one was passed on.
C13_Witness ==
  \E r \in Reqs, q \in Reqs :
    /\ mandatory[r] /\ MwDone(r) /\ Sent401(r)
    /\ result[r].val.kind = "session"
    /\ sessionInfo[result[r].val.obj].webId
    /\ mandatory[q] /\ MwDone(q) /\ NextPlain(q)

\* C14: the optional middleware never sends a 401; whenever it finishes it
\* has called next() once, without an error.
C14_OptionalNeverRejects ==
  \A r \in Reqs :
    (mwPc[r] # "idle" /\ ~mandatory[r]) =>
      /\ resStatus[r] = 0
      /\ MwDone(r) => NextPlain(r)
      /\ ~MwDone(r) => nextCalls[r] = <<>>

\* An optional request whose wrapper call threw, and one whose wrapper call
\* returned null, were both passed on.
C14_Witness ==
  \E r \in Reqs, q \in Reqs :
    /\ ~mandatory[r] /\ MwDone(r) /\ WrapperThrew(r) /\ NextPlain(r)
    /\ ~mandatory[q] /\ MwDone(q) /\ WrapperNull(q) /\ NextPlain(q)

\* ---------------------------------------------------------------- grant and pod middleware properties
HDone(h) == handler = h /\ hPc = "done"

\* The session in res.locals is that of an authenticated user.
Authenticated == hSession.present /\ hSession.webId /\ hSession.isLoggedIn

\* getPodUrlAll has resolved with no pod.
NoPodsFound ==
  /\ podOps # <<>> /\ podOps[1].op = "getPodUrlAll"
  /\ podOps[1].state = "ok" /\ podOps[1].value = <<>>

\* C15: validateAccessGrant answers 403 without calling next when the access
\* grant is missing or its expiration date lies before now, and calls next
\* only when a grant is present and not expired.
C15_GrantRequired ==
  HDone("validateAccessGrant") =>
    LET missing == hReq.accessGrant = "none"
        expired == hReq.expiration.kind = "date" /\ hReq.expiration.t < hReq.now
    IN IF missing \/ expired
       THEN hStatus = StatusForbidden /\ hNext = <<>>
       ELSE hStatus = 0 /\ hNext = <<PlainNext>>

\* A grant whose expiration date has passed was answered 403.
C15_Witness ==
  /\ HDone("validateAccessGrant") /\ hReq.accessGrant = "json"
  /\ hReq.expiration.kind = "date" /\ hReq.expiration.t < hReq.now
  /\ hStatus = StatusForbidden /\ hNext = <<>>

\* C16: the mandatory pods middleware forwards an HttpError 401 without asking
\* for the pods when there is no authenticated session, forwards an HttpError
\* 404 and leaves res.locals.pods unset when the pod list is empty, and stores
\* pods and calls next() only for an authenticated session with pods.
C16_MandatoryPods ==
  (handler = "getPods" /\ hMandatory) =>
    /\ ~Authenticated =>
         (podOps = <<>> /\ ~hPods.set /\ hNext = <<HttpError(StatusUnauthorized)>>)
    /\ (hPc = "done" /\ NoPodsFound) =>
         (~hPods.set /\ hNext = <<HttpError(StatusNotFound)>>)
    /\ (hPods.set \/ \E i \in 1..Len(hNext) : hNext[i] = PlainNext) =>
         /\ Authenticated /\ hPods.set /\ hPods.urls # <<>>
         /\ hNext = <<PlainNext>>

\* An authenticated user without pods got the 404.
C16_Witness ==
  /\ HDone("getPods") /\ hMandatory /\ Authenticated /\ NoPodsFound
  /\ hNext = <<HttpError(StatusNotFound)>> /\ ~hPods.set

\* C17: the optional pods middleware calls next() exactly once, with no
\* error, when the session is not authenticated and when no pods are found.
C17_OptionalPods ==
  (HDone("getPods") /\ ~hMandatory /\ (~Authenticated \/ NoPodsFound)) =>
    (hNext = <<PlainNext>> /\ hStatus = 0)

\* The optional middleware passed on a request whose user has no pods.
C17_Witness ==
  /\ HDone("getPods") /\ ~hMandatory /\ Authenticated /\ NoPodsFound
  /\ hNext = <<PlainNext>>

\* ---------------------------------------------------------------- resource middleware properties
\* next was called with no argument / with an error.
CalledNextPlain == \E i \in 1..Len(hNext) : hNext[i] = PlainNext
CalledNextError == \E i \in 1..Len(hNext) : hNext[i].kind = "error"

\* The request passes validateSession and carries a resource url.
RequestValid ==
  /\ Authenticated /\ hReq.solidSid /\ hReq.accessGrant # "none"
  /\ hReq.url # "none"

\* C18: writeFile passes every error of the request, a failure of the pod
\* write included, to next(error), and calls next() without an error only
\* after the file has been written to the pod.
C18_WriteFileErrorsForwarded ==
  handler = "writeFile" =>
    /\ CalledNextPlain =>
         (podOps # <<>> /\ podOps[1].op = "writeFile" /\ podOps[1].state = "ok")
    /\ (podOps # <<>> /\ podOps[1].state = "failed") => CalledNextError

\* C19: writeResource issues writeSolidDataset only after deleteSolidDataset
\* has resolved; when validation or the delete fails no write is issued and
\* the error goes to next(error); next() is called only after both the delete
\* and the write have resolved.
C19_WriteAfterDelete ==
  handler = "writeResource" =>
    /\ \A i \in 1..Len(podOps) :
         podOps[i].op = "writeSolidDataset" =>
           (i = 2 /\ podOps[1].op = "deleteSolidDataset" /\ podOps[1].state = "ok")
    /\ ~RequestValid => (podOps = <<>> /\ hPc = "done" /\ hNext = <<hNext[1]>>
                         /\ CalledNextError)
    /\ (podOps # <<>> /\ podOps[1].state = "failed") =>
         (Len(podOps) = 1 /\ (hPc = "done" => (CalledNextError /\ ~CalledNextPlain)))
    /\ CalledNextPlain =>
         /\ hNext = <<PlainNext>>
         /\ Len(podOps) = 2
         /\ podOps[1].op = "deleteSolidDataset" /\ podOps[1].state = "ok"
         /\ podOps[2].op = "writeSolidDataset" /\ podOps[2].state = "ok"

\* The delete failed: the middleware ended with next(error) and without a write.
C19_Witness ==
  /\ HDone("writeResource") /\ RequestValid
  /\ Len(podOps) = 1 /\ podOps[1].op = "deleteSolidDataset" /\ podOps[1].state = "failed"
  /\ hNext = <<OtherError>>

\* ---------------------------------------------------------------- fetch cycles and the in-flight set
\* C21: a follower returns the outcome of the fetch cycle that was in flight
\* when it began waiting, never what a later cycle for the same identifier,
\* started by another leader, has published.
C21_FollowerReturnsOwnCycle ==
  \A c \in Calls :
    (IsFollower(c) /\ pc[c] \in {"released", "done"}) => got[c].obj = cycleOf[c]

\* The identifiers held by refreshingSessions.
ArrayIds == {refreshingSessions[i] : i \in 1..Len(refreshingSessions)}

\* C22 as stated: refreshingSessions holds exactly the identifiers for which a
\* leader's fetch is pending (inserted, promise not yet settled), and is empty
\* whenever no fetch is pending.
C22_SetIsPendingFetches ==
  /\ ArrayIds = {sessionId[l] : l \in {c \in Calls : FetchPending(c)}}
  /\ (\A c \in Calls : ~FetchPending(c)) => refreshingSessions = <<>>

\* C22 (amended): refreshingSessions holds exactly the identifiers of the
\* leaders that have inserted it and whose code after the await has not run
\* yet, the fetch being pending or already settled; it is empty whenever
\* there is no such leader.
C22_SetIsLeadersInFlight ==
  /\ ArrayIds = {id \in SessionIds : LeadersInFlight(id) # {}}
  /\ Len(refreshingSessions) = Cardinality(ArrayIds)
  /\ (\A id \in SessionIds : LeadersInFlight(id) = {}) => refreshingSessions = <<>>

\* One fetch is pending and another has settled without its leader having
\* continued: both identifiers are in the array, and a follower still waits
\* on the settled one.
C22_Witness ==
  \E a \in Calls, b \in Calls, c \in Calls :
    /\ FetchPending(a) /\ IsLeader(b) /\ pc[b] = "settled"
    /\ ArrayIds = {sessionId[a], sessionId[b]} /\ sessionId[a] # sessionId[b]
    /\ IsFollower(c) /\ pc[c] = "waiting" /\ sessionId[c] = sessionId[b]

\* The array without the entries of id, the others in their order.
Without(arr, id) ==
  LET keep(x) == x # id IN SelectSeq(arr, keep)

\* C23: when a leader finishes the cycle of its identifier, the index given
\* to splice is never -1 and the removal takes that identifier's entry only:
\* the entries of every other identifier stay, in their order.
C23_RemovalLeavesOthers ==
  [][\A c \in Calls :
       Ending(c) =>
         /\ IndexOf(refreshingSessions, sessionId[c]) # -1
         /\ refreshingSessions' = Without(refreshingSessions, sessionId[c])
         /\ Len(refreshingSessions') = Len(refreshingSessions) - 1
         /\ \A id \in SessionIds :
              id # sessionId[c] =>
                InArray(refreshingSessions', id) = InArray(refreshingSessions, id)]_vars

\* A leader has finished while a later leader's identifier, pushed behind its
\* own, was in the array: that later entry is what remains.
C23_Witness ==
  \E l \in Calls, m \in Calls :
    /\ l < m /\ LeaderDone(l) /\ IsLeader(m) /\ pc[m] \in {"fetching", "settled"}
    /\ sessionId[l] # sessionId[m]
    /\ FetchAt(m) < pubAt[l]
    /\ trace[pubAt[l] + 2] = SpliceOp(sessionId[l])
    /\ refreshingSessions = <<sessionId[m]>>

====
